---------------------------- MODULE Spec2Model ----------------------------
(***************************************************************************)
(* State-machine model of the Slack relay bot:                             *)
(*   - src/bot/slack.py   SlackMCPBot  (dispatch, conversation store,      *)
(*                                      start, cleanup)                    *)
(*   - src/bot/agent.py   OpenAIAgent  (connect, run, cleanup)             *)
(*   - src/bot/app.py     main         (startup / shutdown ordering)       *)
(* src/main.py and src/app.py hold the same control flow.                  *)
(*                                                                         *)
(* Scheduling is asyncio's: one coroutine runs at a time and control only  *)
(* changes hands at an await.  Every action below is therefore the code    *)
(* between two awaits of one coroutine.                                    *)
(*                                                                         *)
(* Text is a sequence of tokens; a token is a string: a mention "<@id>",    *)
(* a blank " ", or a word.                                                 *)
(***************************************************************************)
EXTENDS Integers, Sequences, FiniteSets, TLC

VARIABLES
    pc,             \* position of the main() coroutine (app.py)
    idx,            \* loop index of OpenAIAgent.connect / OpenAIAgent.cleanup
    servers,        \* main_agent.mcp_servers: state and call counts per backend
    bot_id,         \* SlackMCPBot.bot_id (Unset until initialize_bot_info ran)
    transport,      \* socket mode handler: session state, close_async() calls
    conversations,  \* SlackMCPBot.conversations: channel -> messages
    tasks,          \* one _process_message coroutine per delivered event
    window          \* result of the latest window read (store-only specification)

vars == <<pc, idx, servers, bot_id, transport, conversations, tasks, window>>

-----------------------------------------------------------------------------
(* Bounds of the model *)

MaxEvents == 2      \* events delivered to the callbacks in one run
MaxAppends == 7     \* appends in the store-only specification
MaxTextLen == 3     \* tokens of a raw text in the normalisation specification
MaxEarlier == 2     \* exchanges completed before the handlers of the window specification
MaxBurst == 6       \* events delivered to one thread in the burst specification

(* Program constant: the slice [-5:] *)
WindowSize == 5

-----------------------------------------------------------------------------
(* Values *)

None == "None"          \* Python's None
Unset == "<unset>"      \* attribute not yet assigned (hasattr is false)
Absent == "<absent>"    \* key missing from the event dict

Mention(b) == "<@" \o b \o ">"    \* f"<@{self.bot_id}>"
Space == " "
Word(w) == w

Channels == {"C1", "C2"}
BotUser == "BOT"        \* auth_test()["user_id"]

(* Events the transport may deliver (event dicts of slack_bolt): a mention   *)
(* that starts a thread, a reply in that thread that carries no "user" key   *)
(* (message subtypes do not), and a message posted by the bot itself.        *)
InboundEvents ==
    { [channel |-> "C1", user |-> "U9", ts |-> "100", thread_ts |-> Absent,
       text |-> <<Mention(BotUser), Space, Word("hi")>>],
      [channel |-> "C1", user |-> None, ts |-> "101", thread_ts |-> "100",
       text |-> <<Word("ok thanks")>>],
      [channel |-> "C2", user |-> BotUser, ts |-> "102", thread_ts |-> Absent,
       text |-> <<Word("hello!")>>] }

(* Outputs of the model call, and str(e) of the exceptions raised. *)
Replies == { <<Word("hello!")>> }
RunErrors == { <<Word("model timeout")>> }
SayErrors == { <<Word("channel_not_found")>> }

(* servers_config.json: the names of the mcpServers entries, in order. *)
McpServers == <<"filesystem", "fetch">>
NumServers == Len(McpServers)
Servers == 1..NumServers

-----------------------------------------------------------------------------
(* Pure helpers *)

Max(a, b) == IF a >= b THEN a ELSE b
Min(a, b) == IF a <= b THEN a ELSE b

(* Variant: s[:n], the oldest n entries. *)
PySliceFirst(s, n) == SubSeq(s, 1, Min(n, Len(s)))

(* s[-n:] of Python for n > 0. *)
PySliceLast(s, n) == SubSeq(s, Max(Len(s) - n, 0) + 1, Len(s))

(* text.replace(tok, ""): every occurrence is removed. *)
RECURSIVE Replace(_, _)
Replace(text, tok) ==
    IF text = <<>> THEN <<>>
    ELSE IF Head(text) = tok THEN Replace(Tail(text), tok)
    ELSE <<Head(text)>> \o Replace(Tail(text), tok)

RECURSIVE LStrip(_)
LStrip(text) ==
    IF text # <<>> /\ Head(text) = Space THEN LStrip(Tail(text)) ELSE text

RECURSIVE RStrip(_)
RStrip(text) ==
    IF text # <<>> /\ text[Len(text)] = Space
    THEN RStrip(SubSeq(text, 1, Len(text) - 1))
    ELSE text

(* text.strip() *)
Strip(text) == RStrip(LStrip(text))

(* Variant: the lookup always yields the default. *)
GetBotIdDefault(b) == None

(* getattr(self, "bot_id", None) *)
GetBotId(b) == IF b = Unset THEN None ELSE b

(* hasattr(self, "bot_id") and self.bot_id *)
BotIdTruthy(b) == b # Unset /\ b # None

(* Variant: only a mention that starts the text is removed. *)
EffectiveTextLeadingOnly(raw, b) ==
    IF BotIdTruthy(b)
    THEN Strip(IF raw # <<>> /\ Head(raw) = Mention(b) THEN Tail(raw) ELSE raw)
    ELSE raw

(* Lines 80-83: the effective user text. *)
EffectiveText(raw, b) ==
    IF BotIdTruthy(b) THEN Strip(Replace(raw, Mention(b))) ELSE raw

(* Variant: always the event's own timestamp. *)
ThreadTsOwn(event) == event.ts

(* Line 85: event.get("thread_ts", event.get("ts")). *)
ThreadTs(event) ==
    IF event.thread_ts # Absent THEN event.thread_ts ELSE event.ts

(* f"I'm sorry, I encountered an error: {str(e)}" *)
ApologyPrefix == Word("I'm sorry, I encountered an error: ")
ErrorMessage(cause) == <<ApologyPrefix>> \o cause

Message(role, content) == [role |-> role, content |-> content]

(* Lines 88-89: get or create the conversation context. *)
GetOrCreate(convs, channel) ==
    IF channel \in DOMAIN convs THEN convs ELSE convs @@ (channel :> <<>>)

(* conversations[channel]["messages"].append(m), after get-or-create. *)
AppendMessage(convs, channel, m) ==
    [GetOrCreate(convs, channel) EXCEPT ![channel] = Append(@, m)]

(* Variant: the whole history is handed on. *)
RecentWindowWhole(convs, channel) == convs[channel]

(* Lines 100-101: messages.extend(conversations[channel]["messages"][-5:]). *)
RecentWindow(convs, channel) == PySliceLast(convs[channel], WindowSize)


-----------------------------------------------------------------------------
(* Initial state: after SlackMCPBot.__init__ and OpenAIAgent.from_dict, with *)
(* main() about to await slack_bot.start().                                  *)

NewServer == [state |-> "disconnected", connects |-> 0, cleanups |-> 0]

NoWindow == [channel |-> Absent, n |-> 0, messages |-> <<>>]

Init ==
    /\ pc = "connect"
    /\ idx = 1
    /\ servers = [s \in Servers |-> NewServer]
    /\ bot_id = Unset
    /\ transport = [state |-> "idle", closes |-> 0]
    /\ conversations = <<>>
    /\ tasks = <<>>
    /\ window = NoWindow

-----------------------------------------------------------------------------
(* OpenAIAgent.connect (agent.py 52-58), driven by initialize_agent.         *)

(* Position reached when the loop over mcp_servers has handled server i. *)
AfterLoop(i, next) == IF i < NumServers THEN pc' = pc ELSE pc' = next

(* Variant: the receive loop is started before connect() and the lookup are  *)
(* done.                                                                     *)
ConnectReturnsStartsReceiveLoop ==
    /\ pc = "connect"
    /\ idx \in Servers
    /\ servers' = [servers EXCEPT ![idx].state = "connected",
                                  ![idx].connects = @ + 1]
    /\ idx' = idx + 1
    /\ AfterLoop(idx, "auth_test")
    /\ transport' = [transport EXCEPT !.state = "running"]
    /\ UNCHANGED <<bot_id, conversations, tasks, window>>

(* await mcp_server.connect() returns. *)
ConnectReturns ==
    /\ pc = "connect"
    /\ idx \in Servers
    /\ servers' = [servers EXCEPT ![idx].state = "connected",
                                  ![idx].connects = @ + 1]
    /\ idx' = idx + 1
    /\ AfterLoop(idx, "auth_test")
    /\ UNCHANGED <<bot_id, transport, conversations, tasks, window>>

(* Variant: the failure ends the loop; initialize_agent logs it. *)
ConnectRaisesFailFast ==
    /\ pc = "connect"
    /\ idx \in Servers
    /\ servers' = [servers EXCEPT ![idx].connects = @ + 1]
    /\ idx' = idx + 1
    /\ pc' = "auth_test"
    /\ UNCHANGED <<bot_id, transport, conversations, tasks, window>>

(* await mcp_server.connect() raises: logged, the loop goes on. *)
ConnectRaises ==
    /\ pc = "connect"
    /\ idx \in Servers
    /\ servers' = [servers EXCEPT ![idx].connects = @ + 1]
    /\ idx' = idx + 1
    /\ AfterLoop(idx, "auth_test")
    /\ UNCHANGED <<bot_id, transport, conversations, tasks, window>>

-----------------------------------------------------------------------------
(* SlackMCPBot.initialize_bot_info (slack.py 51-59) and the rest of start()  *)
(* (slack.py 125-128): no await separates the lookup's return from           *)
(* create_task and from main()'s first sleep.                                *)

(* asyncio.create_task(self.socket_mode_handler.start_async()) *)
StartReceiveLoop ==
    /\ transport' = [transport EXCEPT !.state = "running"]
    /\ pc' = "sleep"

AuthTestReturns ==
    /\ pc = "auth_test"
    /\ bot_id' = BotUser
    /\ StartReceiveLoop
    /\ UNCHANGED <<idx, servers, conversations, tasks, window>>

AuthTestRaises ==
    /\ pc = "auth_test"
    /\ bot_id' = None
    /\ StartReceiveLoop
    /\ UNCHANGED <<idx, servers, conversations, tasks, window>>

-----------------------------------------------------------------------------
(* main() (app.py 30-41): the try block ends by an interrupt / cancellation   *)
(* delivered at one of its awaits; the finally block then runs.              *)

Interrupt ==
    /\ pc \in {"connect", "auth_test", "sleep"}
    /\ pc' = "close"
    /\ UNCHANGED <<idx, servers, bot_id, transport, conversations, tasks, window>>

(* SlackMCPBot.cleanup (slack.py 130-137), then agent.cleanup is entered. *)
CloseReturns ==
    /\ pc = "close"
    /\ transport' = [state |-> "closed", closes |-> transport.closes + 1]
    /\ idx' = 1
    /\ pc' = IF NumServers > 0 THEN "cleanup" ELSE "exited"
    /\ UNCHANGED <<servers, bot_id, conversations, tasks, window>>

(* Variant: the failure leaves cleanup() and ends main()'s finally block. *)
CloseRaisesPropagates ==
    /\ pc = "close"
    /\ transport' = [transport EXCEPT !.closes = @ + 1]
    /\ pc' = "exited"
    /\ UNCHANGED <<idx, servers, bot_id, conversations, tasks, window>>

(* close_async() raises: logged and swallowed, the session stays as it was. *)
CloseRaises ==
    /\ pc = "close"
    /\ transport' = [transport EXCEPT !.closes = @ + 1]
    /\ idx' = 1
    /\ pc' = IF NumServers > 0 THEN "cleanup" ELSE "exited"
    /\ UNCHANGED <<servers, bot_id, conversations, tasks, window>>

(* OpenAIAgent.cleanup (agent.py 65-73). *)
CleanupReturns ==
    /\ pc = "cleanup"
    /\ idx \in Servers
    /\ servers' = [servers EXCEPT ![idx].state = "closed",
                                  ![idx].cleanups = @ + 1]
    /\ idx' = idx + 1
    /\ AfterLoop(idx, "exited")
    /\ UNCHANGED <<bot_id, transport, conversations, tasks, window>>

(* Variant: the failure ends the loop and leaves cleanup(). *)
CleanupRaisesFailFast ==
    /\ pc = "cleanup"
    /\ idx \in Servers
    /\ servers' = [servers EXCEPT ![idx].cleanups = @ + 1]
    /\ idx' = idx + 1
    /\ pc' = "exited"
    /\ UNCHANGED <<bot_id, transport, conversations, tasks, window>>

(* Variant: after a failed cleanup the backend is connected anew. *)
CleanupRaisesReconnects ==
    /\ pc = "cleanup"
    /\ idx \in Servers
    /\ servers' = [servers EXCEPT ![idx].cleanups = @ + 1,
                                  ![idx].connects = @ + 1,
                                  ![idx].state = "connected"]
    /\ idx' = idx + 1
    /\ AfterLoop(idx, "exited")
    /\ UNCHANGED <<bot_id, transport, conversations, tasks, window>>

(* mcp_server.cleanup() raises: logged, the loop goes on; the backend is     *)
(* left as it was.                                                           *)
CleanupRaises ==
    /\ pc = "cleanup"
    /\ idx \in Servers
    /\ servers' = [servers EXCEPT ![idx].cleanups = @ + 1]
    /\ idx' = idx + 1
    /\ AfterLoop(idx, "exited")
    /\ UNCHANGED <<bot_id, transport, conversations, tasks, window>>

-----------------------------------------------------------------------------
(* SlackMCPBot._process_message (slack.py 71-118).                           *)
(*                                                                           *)
(* A task record holds the coroutine's locals (text, thread_ts, messages),   *)
(* its position pc, the outcome of agent.run, the say() calls it made, and   *)
(* two bookkeeping fields: at / reply_at, the positions in the channel's     *)
(* history of the user message and of the assistant message it appended      *)
(* (0 when it appended none).                                                *)

SayCall(text, channel, thread_ts) ==
    [text |-> text, channel |-> channel, thread_ts |-> thread_ts,
     result |-> "pending"]

(* Lines 73-78: the event is skipped. *)
SkippedTask(event) ==
    [event |-> event, pc |-> "returned", text |-> <<>>, thread_ts |-> Absent,
     messages |-> <<>>, run |-> "not_called", says |-> <<>>,
     at |-> 0, reply_at |-> 0]

(* Variant: an event whose channel and ts were handled already is dropped. *)
ProcessMessageOnce(event) ==
    IF \/ event.user = GetBotId(bot_id)
       \/ \E k \in 1..Len(tasks) : /\ tasks[k].event.channel = event.channel
                                    /\ tasks[k].event.ts = event.ts
    THEN /\ tasks' = Append(tasks, SkippedTask(event))
         /\ UNCHANGED conversations
    ELSE LET text == EffectiveText(event.text, bot_id)
             convs == AppendMessage(conversations, event.channel,
                                    Message("user", text))
         IN  /\ conversations' = convs
             /\ tasks' = Append(tasks,
                    [event |-> event, pc |-> "run", text |-> text,
                     thread_ts |-> ThreadTs(event),
                     messages |-> RecentWindow(convs, event.channel),
                     run |-> "pending", says |-> <<>>,
                     at |-> Len(convs[event.channel]), reply_at |-> 0])

(* Lines 73-105: from entry to the suspension in agent.run. *)
ProcessMessage(event) ==
    IF event.user = GetBotId(bot_id)
    THEN /\ tasks' = Append(tasks, SkippedTask(event))
         /\ UNCHANGED conversations
    ELSE LET text == EffectiveText(event.text, bot_id)
             convs == AppendMessage(conversations, event.channel,
                                    Message("user", text))
         IN  /\ conversations' = convs
             /\ tasks' = Append(tasks,
                    [event |-> event, pc |-> "run", text |-> text,
                     thread_ts |-> ThreadTs(event),
                     messages |-> RecentWindow(convs, event.channel),
                     run |-> "pending", says |-> <<>>,
                     at |-> Len(convs[event.channel]), reply_at |-> 0])

(* The receive loop delivers events while the session is up and main() lives. *)
Delivering == transport.state = "running" /\ pc # "exited" /\ Len(tasks) < MaxEvents

(* handle_mention (slack.py 61-63) *)
HandleMention ==
    /\ Delivering
    /\ \E event \in InboundEvents : ProcessMessage(event)
    /\ UNCHANGED <<pc, idx, servers, bot_id, transport, window>>

(* handle_message (slack.py 65-67) *)
HandleMessage ==
    /\ Delivering
    /\ \E event \in InboundEvents : ProcessMessage(event)
    /\ UNCHANGED <<pc, idx, servers, bot_id, transport, window>>

(* Handlers are tasks of the event loop: they run until asyncio.run ends. *)
Running(i) == i \in 1..Len(tasks) /\ pc # "exited"

(* Lines 105-113: agent.run returns; the reply is stored, then sent. *)
RunReturns(i) ==
    /\ Running(i)
    /\ tasks[i].pc = "run"
    /\ \E resp \in Replies :
        LET t == tasks[i]
            convs == AppendMessage(conversations, t.event.channel,
                                   Message("assistant", resp))
        IN
        /\ conversations' = convs
        /\ tasks' = [tasks EXCEPT ![i].pc = "say", ![i].run = "ok",
                        ![i].reply_at = Len(convs[t.event.channel]),
                        ![i].says = Append(@, SayCall(resp, t.event.channel,
                                                      t.thread_ts))]
    /\ UNCHANGED <<pc, idx, servers, bot_id, transport, window>>

(* Lines 115-118: the except branch sends the error message. *)
Except(i, cause, says) ==
    LET t == tasks[i] IN
    [t EXCEPT !.pc = "say_err",
              !.says = Append(says, SayCall(ErrorMessage(cause),
                                            t.event.channel, t.thread_ts))]

(* Variant: the error message is also stored as the assistant's turn. *)
RunRaisesStoresError(i) ==
    /\ Running(i)
    /\ tasks[i].pc = "run"
    /\ \E cause \in RunErrors :
        /\ tasks' = [tasks EXCEPT ![i] =
                    [Except(i, cause, tasks[i].says) EXCEPT !.run = "raised"]]
        /\ conversations' = AppendMessage(conversations, tasks[i].event.channel,
                                Message("assistant", ErrorMessage(cause)))
    /\ UNCHANGED <<pc, idx, servers, bot_id, transport, window>>

(* Variant: the failed turn's user message is taken out of the history. *)
RunRaisesRollsBack(i) ==
    /\ Running(i)
    /\ tasks[i].pc = "run"
    /\ \E cause \in RunErrors :
        tasks' = [tasks EXCEPT ![i] =
                    [Except(i, cause, tasks[i].says) EXCEPT !.run = "raised"]]
    /\ conversations' =
            [conversations EXCEPT ![tasks[i].event.channel] =
                SubSeq(@, 1, tasks[i].at - 1) \o SubSeq(@, tasks[i].at + 1, Len(@))]
    /\ UNCHANGED <<pc, idx, servers, bot_id, transport, window>>

(* agent.run raises. *)
RunRaises(i) ==
    /\ Running(i)
    /\ tasks[i].pc = "run"
    /\ \E cause \in RunErrors :
        tasks' = [tasks EXCEPT ![i] =
                    [Except(i, cause, tasks[i].says) EXCEPT !.run = "raised"]]
    /\ UNCHANGED <<pc, idx, servers, bot_id, transport, conversations, window>>

(* The pending say() of task t, settled with the given result. *)
Settle(says, result) == [says EXCEPT ![Len(says)].result = result]

(* say() returns, at line 113 or at line 118: the handler returns. *)
SayReturns(i) ==
    /\ Running(i)
    /\ tasks[i].pc \in {"say", "say_err"}
    /\ tasks' = [tasks EXCEPT ![i].pc = "returned",
                              ![i].says = Settle(@, "ok")]
    /\ UNCHANGED <<pc, idx, servers, bot_id, transport, conversations, window>>

(* Variant: a failed say() of the reply calls agent.run again. *)
SayRaisesRetriesRun(i) ==
    /\ Running(i)
    /\ tasks[i].pc \in {"say", "say_err"}
    /\ tasks' = [tasks EXCEPT ![i].pc = IF @ = "say" THEN "run" ELSE "raised",
                              ![i].run = IF tasks[i].pc = "say" THEN "pending" ELSE @,
                              ![i].says = Settle(@, "raised")]
    /\ UNCHANGED <<pc, idx, servers, bot_id, transport, conversations, window>>

(* Variant: a failed say() of the error message runs the except branch again. *)
SayRaisesApologisesAgain(i) ==
    /\ Running(i)
    /\ tasks[i].pc \in {"say", "say_err"}
    /\ \E cause \in SayErrors :
        tasks' = [tasks EXCEPT ![i] =
                    Except(i, cause, Settle(tasks[i].says, "raised"))]
    /\ UNCHANGED <<pc, idx, servers, bot_id, transport, conversations, window>>

(* say() raises: at line 113 the except branch runs; at line 118 nothing     *)
(* catches the exception and it leaves _process_message.                     *)
SayRaises(i) ==
    /\ Running(i)
    /\ tasks[i].pc \in {"say", "say_err"}
    /\ \E cause \in SayErrors :
        tasks' = [tasks EXCEPT ![i] =
            IF tasks[i].pc = "say"
            THEN Except(i, cause, Settle(tasks[i].says, "raised"))
            ELSE [tasks[i] EXCEPT !.pc = "raised",
                                  !.says = Settle(@, "raised")]]
    /\ UNCHANGED <<pc, idx, servers, bot_id, transport, conversations, window>>

-----------------------------------------------------------------------------
Next ==
    \/ ConnectReturns
    \/ ConnectRaises
    \/ AuthTestReturns
    \/ AuthTestRaises
    \/ Interrupt
    \/ CloseReturns
    \/ CloseRaises
    \/ CleanupReturns
    \/ CleanupRaises
    \/ HandleMention
    \/ HandleMessage
    \/ \E i \in 1..MaxEvents : RunReturns(i)
    \/ \E i \in 1..MaxEvents : RunRaises(i)
    \/ \E i \in 1..MaxEvents : SayReturns(i)
    \/ \E i \in 1..MaxEvents : SayRaises(i)

Spec == Init /\ [][Next]_vars

-----------------------------------------------------------------------------
(* The conversation store alone: the appends and the window read of          *)
(* _process_message, run one handler after the other.                        *)

UserTexts == { <<Word("hi")>>, <<Word("ok thanks")>> }

Stored(convs) ==
    IF DOMAIN convs = {} THEN 0
    ELSE LET RECURSIVE Sum(_)
             Sum(cs) == IF cs = {} THEN 0
                        ELSE LET c == CHOOSE x \in cs : TRUE
                             IN  Len(convs[c]) + Sum(cs \ {c})
         IN  Sum(DOMAIN convs)

(* Lines 87-101: get or create, append the user message, read the window. *)
StoreUserTurn ==
    /\ Stored(conversations) < MaxAppends
    /\ \E channel \in Channels, text \in UserTexts :
        LET convs == AppendMessage(conversations, channel, Message("user", text))
        IN  /\ conversations' = convs
            /\ window' = [channel |-> channel, n |-> Len(convs[channel]),
                          messages |-> RecentWindow(convs, channel)]
    /\ UNCHANGED <<pc, idx, servers, bot_id, transport, tasks>>

(* Lines 107-110: append the assistant message of the turn just read. *)
StoreAssistantTurn ==
    /\ Stored(conversations) < MaxAppends
    /\ window.channel \in DOMAIN conversations
    /\ conversations[window.channel][Len(conversations[window.channel])].role = "user"
    /\ \E resp \in Replies :
        conversations' = AppendMessage(conversations, window.channel,
                                       Message("assistant", resp))
    /\ UNCHANGED <<pc, idx, servers, bot_id, transport, tasks, window>>

NextStore ==
    \/ StoreUserTurn
    \/ StoreAssistantTurn

SpecStore == Init /\ [][NextStore]_vars

-----------------------------------------------------------------------------
(* Dispatch alone: the callbacks and their handlers while main() sleeps in   *)
(* its loop (app.py 33-34).  The initial states are those start() leaves:    *)
(* every backend tried once, the lookup done, the receive loop started.      *)

Started(s) == [state |-> s, connects |-> 1, cleanups |-> 0]

InitDispatch ==
    /\ pc = "sleep"
    /\ idx = NumServers + 1
    /\ servers \in [Servers -> {Started("connected"), Started("disconnected")}]
    /\ bot_id \in {BotUser, None}
    /\ transport = [state |-> "running", closes |-> 0]
    /\ conversations = <<>>
    /\ tasks = <<>>
    /\ window = NoWindow

NextDispatch ==
    \/ HandleMention
    \/ HandleMessage
    \/ \E i \in 1..MaxEvents : RunReturns(i)
    \/ \E i \in 1..MaxEvents : RunRaises(i)
    \/ \E i \in 1..MaxEvents : SayReturns(i)
    \/ \E i \in 1..MaxEvents : SayRaises(i)

(* Every awaited agent.run and say() eventually returns or raises. *)
AwaitsComplete ==
    \A i \in 1..MaxEvents :
        /\ WF_vars(RunReturns(i) \/ RunRaises(i))
        /\ WF_vars(SayReturns(i) \/ SayRaises(i))

SpecDispatch == InitDispatch /\ [][NextDispatch]_vars /\ AwaitsComplete

-----------------------------------------------------------------------------
(* Text normalisation alone: one event whose text is any sequence of at most *)
(* MaxTextLen tokens (the bot's mention, another user's mention, a blank, a  *)
(* word) is handed to _process_message after start() has returned.           *)

TextTokens == {Mention(BotUser), Mention("U2"), Space, Word("hello")}

RawTexts == UNION {[1..n -> TextTokens] : n \in 0..MaxTextLen}

TextEvent(raw) ==
    [channel |-> "C1", user |-> "U9", ts |-> "100", thread_ts |-> Absent,
     text |-> raw]

(* Lines 73-105 for the first event delivered. *)
NormalizeEvent ==
    /\ transport.state = "running"
    /\ tasks = <<>>
    /\ \E raw \in RawTexts : ProcessMessage(TextEvent(raw))
    /\ UNCHANGED <<pc, idx, servers, bot_id, transport, window>>

NextNormalize == NormalizeEvent

SpecNormalize == InitDispatch /\ [][NextNormalize]_vars

-----------------------------------------------------------------------------
(* Long histories: dispatch on a channel that already holds the exchanges of *)
(* handlers that ran to their end, one after the other, before the handlers  *)
(* followed here were started.                                               *)

InitWindow ==
    /\ InitDispatch
    /\ bot_id = BotUser
    /\ \A s \in Servers : servers[s].state = "connected"

(* Lines 87-113 of a handler nobody interleaved with: the user message, then *)
(* the reply of agent.run, are appended; the coroutine has returned.         *)
EarlierExchange ==
    /\ transport.state = "running"
    /\ tasks = <<>>
    /\ Stored(conversations) < 2 * MaxEarlier
    /\ \E text \in UserTexts, resp \in Replies :
        conversations' =
            AppendMessage(AppendMessage(conversations, "C1", Message("user", text)),
                          "C1", Message("assistant", resp))
    /\ UNCHANGED <<pc, idx, servers, bot_id, transport, tasks, window>>

NextWindow ==
    \/ EarlierExchange
    \/ HandleMention
    \/ HandleMessage
    \/ \E i \in 1..MaxEvents : RunReturns(i)
    \/ \E i \in 1..MaxEvents : RunRaises(i)
    \/ \E i \in 1..MaxEvents : SayReturns(i)
    \/ \E i \in 1..MaxEvents : SayRaises(i)

SpecWindow == InitWindow /\ [][NextWindow]_vars

-----------------------------------------------------------------------------
(* A burst in one thread: up to MaxBurst replies in the thread of ts 100 are *)
(* delivered while earlier handlers are still suspended in agent.run; the    *)
(* handlers are followed until agent.run has returned or raised (lines       *)
(* 73-110 and 115-117; their say() stays pending).                           *)

ThreadReplies == {e \in InboundEvents : e.thread_ts = "100"}

DeliverBurst ==
    /\ transport.state = "running"
    /\ Len(tasks) < MaxBurst
    /\ \E event \in ThreadReplies : ProcessMessage(event)
    /\ UNCHANGED <<pc, idx, servers, bot_id, transport, window>>

NextBurst ==
    \/ DeliverBurst
    \/ \E i \in 1..MaxBurst : RunReturns(i)
    \/ \E i \in 1..MaxBurst : RunRaises(i)

SpecBurst == InitWindow /\ [][NextBurst]_vars

-----------------------------------------------------------------------------
(* Vocabulary of the properties *)

TaskIds == 1..Len(tasks)

(* The event passed the self-message check and was dispatched. *)
Processed(i) == tasks[i].run # "not_called"

OnChannel(c) == {i \in TaskIds : Processed(i) /\ tasks[i].event.channel = c}

CountRole(h, role) == Cardinality({k \in 1..Len(h) : h[k].role = role})

(* Task j's user message directly follows task i's in the same history. *)
NextTurn(i, j) ==
    /\ Processed(i) /\ Processed(j)
    /\ tasks[i].event.channel = tasks[j].event.channel
    /\ tasks[j].at = tasks[i].at + 1

-----------------------------------------------------------------------------
(* C1: failure isolation.                                                    *)

(* When agent.run failed, the first say() of the task carries the apology    *)
(* and the failure's description, to the event's channel and thread anchor.  *)
C1_ApologySent ==
    \A i \in TaskIds : tasks[i].run = "raised" =>
        /\ Len(tasks[i].says) >= 1
        /\ LET s == tasks[i].says[1]
               e == tasks[i].event
           IN  /\ Head(s.text) = ApologyPrefix
               /\ Tail(s.text) \in RunErrors
               /\ s.channel = e.channel
               /\ e.thread_ts # Absent => s.thread_ts = e.thread_ts
               /\ e.thread_ts = Absent => s.thread_ts = e.ts

(* A failed turn stores no assistant message: every assistant entry of a     *)
(* history belongs to a turn whose agent.run returned.                       *)
C1_NoAssistantEntry ==
    /\ \A i \in TaskIds : tasks[i].run = "raised" => tasks[i].reply_at = 0
    /\ \A c \in DOMAIN conversations :
        CountRole(conversations[c], "assistant")
            = Cardinality({i \in OnChannel(c) : tasks[i].run = "ok"})

(* Every handler of channel c has finished and the latest turn of c failed   *)
(* in agent.run.                                                             *)
LastTurnFailed(c) ==
    /\ OnChannel(c) # {}
    /\ \A i \in OnChannel(c) : tasks[i].pc \in {"returned", "raised"}
    /\ \E i \in OnChannel(c) :
        /\ tasks[i].run = "raised"
        /\ \A k \in OnChannel(c) : tasks[k].at <= tasks[i].at

(* C1 as stated: the apology is sent, no assistant entry is stored, and when *)
(* the next event of the channel is dispatched after a failed turn, what its *)
(* window holds before its own user message ends at the last successful      *)
(* exchange (an assistant message), or is empty when there was none.         *)
C1_AsStated ==
    /\ [](C1_ApologySent /\ C1_NoAssistantEntry)
    /\ [][ (/\ Len(tasks') = Len(tasks) + 1
             /\ tasks'[Len(tasks')].run = "pending"
             /\ LastTurnFailed(tasks'[Len(tasks')].event.channel))
            => LET w == tasks'[Len(tasks')].messages
               IN  Len(w) = 1 \/ w[Len(w) - 1].role = "assistant" ]_vars

(* C1 amended: on a failed agent.run the apology with the failure's          *)
(* description is sent to the event's channel and thread anchor, the history *)
(* gains no assistant entry for that turn, and the failed turn's user        *)
(* message stays: the next turn's window ends with that user message         *)
(* followed by the next turn's own.                                          *)
C1_FailureIsolation ==
    /\ C1_ApologySent
    /\ C1_NoAssistantEntry
    /\ \A i, j \in TaskIds :
        (NextTurn(i, j) /\ tasks[i].run = "raised") =>
            LET w == tasks[j].messages
            IN  /\ Len(w) >= 2
                /\ w[Len(w) - 1] = Message("user", tasks[i].text)
                /\ w[Len(w)] = Message("user", tasks[j].text)

(* A failed turn whose apology was delivered, followed by a next turn on     *)
(* the same channel whose agent.run returned.                                *)
C1_Witness ==
    \E i, j \in TaskIds :
        /\ i < j
        /\ NextTurn(i, j)
        /\ tasks[i].run = "raised"
        /\ tasks[i].pc = "returned"
        /\ tasks[j].run = "ok"

-----------------------------------------------------------------------------
(* C2: total failure containment: no exception leaves _process_message, and  *)
(* a handler that returned either skipped the event or sent a message.       *)
C2_NeverRaises ==
    \A i \in TaskIds :
        /\ tasks[i].pc # "raised"
        /\ tasks[i].pc = "returned" =>
            \/ ~Processed(i)
            \/ \E k \in 1..Len(tasks[i].says) : tasks[i].says[k].result = "ok"

-----------------------------------------------------------------------------
(* C3: per-key serialization: of two events on one channel, the earlier      *)
(* one's assistant message is stored before the later one's user message,    *)
(* and is part of the later one's window.                                    *)
C3_PerKeySerialized ==
    \A i, j \in TaskIds :
        (/\ i < j
         /\ Processed(i) /\ Processed(j)
         /\ tasks[i].event.channel = tasks[j].event.channel
         /\ tasks[i].run = "ok") =>
            LET d == tasks[j].at - tasks[i].reply_at
                w == tasks[j].messages
            IN  /\ d > 0
                /\ d < WindowSize => w[Len(w) - d].role = "assistant"

-----------------------------------------------------------------------------
(* C4: an event whose user is the resolved bot identity changes nothing:     *)
(* no history is appended to or created, agent.run and say() are not called, *)
(* and the handler has returned.                                             *)
C4_SelfMessageFiltered ==
    [][ (/\ Len(tasks') = Len(tasks) + 1
         /\ BotIdTruthy(bot_id)
         /\ tasks'[Len(tasks')].event.user = bot_id)
        => (/\ conversations' = conversations
            /\ SubSeq(tasks', 1, Len(tasks)) = tasks
            /\ tasks'[Len(tasks')].pc = "returned"
            /\ tasks'[Len(tasks')].run = "not_called"
            /\ tasks'[Len(tasks')].says = <<>>
            /\ UNCHANGED <<pc, idx, servers, bot_id, transport>>) ]_vars

(* The bot's own message arrived on a channel that has no conversation,      *)
(* while another event was dispatched.                                       *)
C4_Witness ==
    \E i, j \in TaskIds :
        /\ bot_id = BotUser
        /\ tasks[i].event.user = BotUser
        /\ tasks[i].event.channel \notin DOMAIN conversations
        /\ tasks[i].pc = "returned"
        /\ Processed(j)

-----------------------------------------------------------------------------
(* C5: when the identity lookup fails, start() still starts the receive      *)
(* loop with bot_id None, and from then on no event is skipped by the        *)
(* self-message check.                                                       *)
C5_LookupFailureDisablesFilter ==
    bot_id = None =>
        /\ transport.state # "idle"
        /\ \A i \in TaskIds : Processed(i)

-----------------------------------------------------------------------------
(* C6: bounded read window: after N appends to a channel, the window read    *)
(* is the last min(N, 5) stored messages in their stored order, and the      *)
(* history still holds all N.                                                *)
C6_BoundedReadWindow ==
    window.channel # Absent =>
        LET h == conversations[window.channel]
            n == window.n
            m == Min(n, WindowSize)
            w == window.messages
        IN  /\ n <= Len(h)
            /\ Len(w) = m
            /\ \A k \in 1..m : w[k] = h[n - m + k]

(* A window read after more than five appends, when the last stored message  *)
(* differs from the first one.                                               *)
C6_Witness ==
    /\ window.n > WindowSize
    /\ Len(conversations[window.channel]) = window.n
    /\ conversations[window.channel][1] # conversations[window.channel][window.n]
    /\ Len(window.messages) = WindowSize

-----------------------------------------------------------------------------
(* C7: thread anchoring: every say() of a task, reply or apology, goes to    *)
(* the event's channel, and to the event's thread_ts when it has one, to its *)
(* own ts otherwise.                                                         *)
C7_ThreadAnchoring ==
    \A i \in TaskIds : \A k \in 1..Len(tasks[i].says) :
        LET s == tasks[i].says[k]
            e == tasks[i].event
        IN  /\ s.channel = e.channel
            /\ e.thread_ts # Absent => s.thread_ts = e.thread_ts
            /\ e.thread_ts = Absent => s.thread_ts = e.ts
            /\ (e.ts = "101" /\ e.thread_ts = "100") => s.thread_ts = "100"

(* A threaded event whose reply failed to send and whose apology was then    *)
(* delivered, beside an answered event that starts a thread.                 *)
C7_Witness ==
    \E i, j \in TaskIds :
        /\ tasks[i].event.thread_ts = "100"
        /\ tasks[i].event.ts = "101"
        /\ Len(tasks[i].says) = 2
        /\ tasks[i].says[2].result = "ok"
        /\ tasks[j].event.thread_ts = Absent
        /\ Len(tasks[j].says) >= 1

-----------------------------------------------------------------------------
(* connect() has returned to initialize_agent and start() went on. *)
ConnectReturned == pc = "auth_test" \/ bot_id # Unset

(* C8: ConnectAll fan-out: while connect() runs it has tried each backend    *)
(* before the current one exactly once; when it has returned, every backend  *)
(* was tried exactly once whatever the other outcomes (no fail-fast, no      *)
(* retry), and a backend is connected or not as its own connect() ended.     *)
C8_ConnectFanOut ==
    /\ pc = "connect" =>
        /\ idx \in Servers
        /\ \A s \in Servers : servers[s].connects = (IF s < idx THEN 1 ELSE 0)
    /\ ConnectReturned =>
        \A s \in Servers :
            /\ servers[s].connects = 1
            /\ pc = "auth_test" => servers[s].state \in {"connected", "disconnected"}

(* connect() has returned: the first backend failed, the second connected. *)
C8_Witness ==
    /\ pc = "auth_test"
    /\ servers[1].state = "disconnected"
    /\ servers[2].state = "connected"
    /\ servers[1].connects = 1

-----------------------------------------------------------------------------
(* C9: DisconnectAll fan-out: cleanup() calls cleanup on every backend       *)
(* whatever the earlier ones did, and completes.                             *)
C9_CleanupFanOut ==
    /\ pc = "cleanup" =>
        /\ idx \in Servers
        /\ \A s \in Servers : servers[s].cleanups = (IF s < idx THEN 1 ELSE 0)
    /\ pc = "exited" => \A s \in Servers : servers[s].cleanups = 1

(* cleanup() has completed: the first backend's cleanup raised (it is still  *)
(* connected), the second was closed.                                        *)
C9_Witness ==
    /\ pc = "exited"
    /\ servers[1].state = "connected"
    /\ servers[1].cleanups = 1
    /\ servers[2].state = "closed"

-----------------------------------------------------------------------------
(* C10: shutdown always runs, in order: main() exits only after close_async  *)
(* was called once and then every backend's cleanup once; no cleanup is      *)
(* called before close_async; a failed close changes none of this.           *)
C10_ShutdownOrdered ==
    /\ pc \in {"connect", "auth_test", "sleep", "close"} =>
        /\ transport.closes = 0
        /\ \A s \in Servers : servers[s].cleanups = 0
    /\ pc \in {"cleanup", "exited"} => transport.closes = 1
    /\ pc = "exited" => \A s \in Servers : servers[s].cleanups = 1

(* main() has exited after close_async raised on a started session. *)
C10_Witness ==
    /\ pc = "exited"
    /\ transport.state = "running"
    /\ transport.closes = 1
    /\ \A s \in Servers : servers[s].cleanups = 1

-----------------------------------------------------------------------------
(* C11: every dispatched event gets a user-visible response: when agent.run  *)
(* and say() always complete, every event that passed the self-message check *)
(* eventually has a say() that delivered a message to its channel.           *)
C11_AlwaysResponds ==
    \A i \in 1..MaxEvents :
        (i \in TaskIds /\ Processed(i))
            ~> (i \in TaskIds /\ \E k \in 1..Len(tasks[i].says) :
                                    /\ tasks[i].says[k].result = "ok"
                                    /\ tasks[i].says[k].channel = tasks[i].event.channel)

-----------------------------------------------------------------------------
(* The say() sends the error message of the except branch. *)
IsApology(s) == Head(s.text) = ApologyPrefix

(* C12 as stated: an apology is sent only for an event whose agent.run       *)
(* failed; a failed say() sends nothing further to the user.                 *)
C12_ApologyOnlyOnRunFailure ==
    \A i \in TaskIds : \A k \in 1..Len(tasks[i].says) :
        IsApology(tasks[i].says[k]) => tasks[i].run = "raised"

(* C12 amended: a handler makes at most two say() calls; an apology is sent  *)
(* only when agent.run failed (first say, with that failure's text) or when  *)
(* the say() of the reply failed (second say, with the send failure's text,  *)
(* the reply being stored already); a failed apology say() sends nothing     *)
(* more, and failures of connect, of the identity lookup and of close_async  *)
(* send nothing: every say() is a reply or one of these two apologies.       *)
C12_ApologyCauses ==
    \A i \in TaskIds :
        LET t == tasks[i] IN
        /\ Len(t.says) <= 2
        /\ ~Processed(i) => t.says = <<>>
        /\ \A k \in 1..Len(t.says) :
            IF IsApology(t.says[k])
            THEN \/ /\ k = 1
                    /\ t.run = "raised"
                    /\ Tail(t.says[k].text) \in RunErrors
                 \/ /\ k = 2
                    /\ t.run = "ok"
                    /\ t.reply_at > 0
                    /\ t.says[1].result = "raised"
                    /\ Tail(t.says[k].text) \in SayErrors
            ELSE /\ k = 1
                 /\ t.run = "ok"
                 /\ t.says[k].text \in Replies

(* A backend's connect failed, the lookup failed, close_async raised, and    *)
(* the only apology sent is the one for a reply whose say() failed.          *)
C12_Witness ==
    /\ servers[1].state = "disconnected" /\ servers[1].connects = 1
    /\ bot_id = None
    /\ transport.state = "running" /\ transport.closes = 1
    /\ \E i \in TaskIds :
        /\ tasks[i].run = "ok"
        /\ Len(tasks[i].says) = 2
        /\ IsApology(tasks[i].says[2])
        /\ tasks[i].says[2].result = "ok"
    /\ \A j \in TaskIds : \A k \in 1..Len(tasks[j].says) :
        IsApology(tasks[j].says[k]) => tasks[j].run = "ok"

-----------------------------------------------------------------------------
(* say() calls of task i that returned. *)
Delivered(i) == {k \in 1..Len(tasks[i].says) : tasks[i].says[k].result = "ok"}

(* C13: zero-or-one reply, no retry: for each event at most one say()        *)
(* returns successfully, a second say() is made only after the first raised, *)
(* an event of the resolved bot identity gets no agent.run and no say(), and *)
(* agent.run is awaited at most once: once it has returned or raised (or was *)
(* never called) the handler never awaits it again.                          *)
C13_ZeroOrOneReply ==
    /\ [](\A i \in TaskIds :
            /\ Cardinality(Delivered(i)) <= 1
            /\ Len(tasks[i].says) <= 2
            /\ Len(tasks[i].says) = 2 => tasks[i].says[1].result = "raised"
            /\ tasks[i].event.user = bot_id =>
                    tasks[i].run = "not_called" /\ tasks[i].says = <<>>)
    /\ [][\A i \in TaskIds :
            /\ i \in 1..Len(tasks')
            /\ tasks[i].run # "pending" => tasks'[i].run = tasks[i].run
            /\ tasks[i].pc # "run" => tasks'[i].pc # "run"]_vars

(* One event's reply failed to send and its apology was delivered, while the *)
(* bot's own event was skipped.                                              *)
C13_Witness ==
    \E i, j \in TaskIds :
        /\ tasks[i].run = "ok"
        /\ Len(tasks[i].says) = 2
        /\ Delivered(i) = {2}
        /\ tasks[j].event.user = bot_id
        /\ tasks[j].pc = "returned"

-----------------------------------------------------------------------------
(* The text with a self-mention that starts it (after blanks) removed, and   *)
(* the surrounding blanks trimmed.                                           *)
LeadingMentionStripped(raw, b) ==
    LET t == LStrip(raw)
    IN  Strip(IF t # <<>> /\ Head(t) = Mention(b) THEN Tail(t) ELSE t)

(* C14 as stated: for every raw text and bot identity the effective content  *)
(* is the raw text without a leading self-mention, trimmed; nothing else is  *)
(* altered.                                                                  *)
C14_LeadingMentionOnly ==
    \A i \in TaskIds :
        Processed(i) =>
            tasks[i].text = LeadingMentionStripped(tasks[i].event.text, bot_id)

(* text is f without the blanks at its two ends. *)
Trimmed(text, f) ==
    /\ text = <<>> \/ (text[1] # Space /\ text[Len(text)] # Space)
    /\ \E a \in 1..(Len(f) + 1) : \E z \in 0..Len(f) :
        /\ text = SubSeq(f, a, z)
        /\ \A k \in 1..Len(f) : (k < a \/ k > z) => f[k] = Space

(* C14 amended: with a resolved bot identity the effective content is the    *)
(* raw text with every self-mention token removed, wherever it stands, and   *)
(* then the surrounding blanks trimmed ("<@BOT> hello" becomes "hello");     *)
(* every other token keeps its place.  With no bot identity (lookup failed)  *)
(* the text is used as it is, untrimmed.  An empty result is dispatched like *)
(* any other: it is appended as the user message and handed to agent.run.    *)
C14_MentionNormalization ==
    \A i \in TaskIds :
        Processed(i) =>
            LET raw == tasks[i].event.text
                text == tasks[i].text
                NotSelf(tok) == tok # Mention(bot_id)
            IN  /\ bot_id = BotUser => Trimmed(text, SelectSeq(raw, NotSelf))
                /\ bot_id = None => text = raw
                /\ (bot_id = BotUser
                     /\ raw = <<Mention(BotUser), Space, Word("hello")>>)
                        => text = <<Word("hello")>>
                /\ tasks[i].run = "pending"
                /\ conversations[tasks[i].event.channel][tasks[i].at]
                        = Message("user", text)
                /\ tasks[i].messages[Len(tasks[i].messages)] = Message("user", text)

(* A text whose self-mention is not at its start was normalised with the bot *)
(* identity resolved, and the result is shorter than the raw text.           *)
C14_Witness ==
    \E i \in TaskIds :
        /\ bot_id = BotUser
        /\ tasks[i].event.text = <<Word("hello"), Space, Mention(BotUser)>>
        /\ tasks[i].text = <<Word("hello")>>

-----------------------------------------------------------------------------
(* C16: no dispatch into a tearing-down agent: while agent.cleanup() runs    *)
(* (DisconnectAll has started and main() has not exited), no handler is      *)
(* suspended in agent.run, whether it entered before or after shutdown began. *)
C16_NoRunDuringTeardown ==
    pc = "cleanup" => \A i \in TaskIds : tasks[i].pc # "run"

-----------------------------------------------------------------------------
(* C17: startup ordering: the receive loop is started only when connect()    *)
(* has tried every backend once and the lookup has set bot_id (to the bot's  *)
(* id or to None), and the lookup is made only after connect() returned; so  *)
(* every delivered event finds all connect attempts finished and bot_id set. *)
C17_StartupOrdered ==
    /\ (transport.state = "running" \/ tasks # <<>>) =>
        /\ bot_id \in {BotUser, None}
        /\ \A s \in Servers : servers[s].connects = 1
    /\ bot_id # Unset =>
        /\ transport.state # "idle"
        /\ \A s \in Servers : servers[s].connects = 1
    /\ pc = "auth_test" =>
        /\ transport.state = "idle"
        /\ bot_id = Unset
        /\ \A s \in Servers : servers[s].connects = 1
    /\ pc = "connect" => transport.state = "idle" /\ bot_id = Unset

(* An event was dispatched after a start() in which the first backend's      *)
(* connect and the lookup both failed.                                       *)
C17_Witness ==
    /\ \E i \in TaskIds : Processed(i)
    /\ servers[1].state = "disconnected"
    /\ servers[2].state = "connected"
    /\ bot_id = None

-----------------------------------------------------------------------------
(* C18: the window handed to agent.run: for every dispatched event, however  *)
(* the handlers interleave, it has between 1 and 5 messages, it is the tail  *)
(* of the channel's history as it was when the event's user message was      *)
(* appended (the history up to position at), and it ends with that user      *)
(* message; and when the event of ts 101 is dispatched after the exchange of *)
(* the event of ts 100 on a new channel, its window is                       *)
(* [user hi, assistant hello!, user ok thanks].                              *)
C18_WindowHandedToModel ==
    \A i \in TaskIds :
        Processed(i) =>
            LET h == conversations[tasks[i].event.channel]
                w == tasks[i].messages
                at == tasks[i].at
            IN  /\ Len(w) >= 1 /\ Len(w) <= 5
                /\ at <= Len(h)
                /\ Len(w) = Min(at, 5)
                /\ \A k \in 1..Len(w) : w[k] = h[at - Len(w) + k]
                /\ w[Len(w)] = Message("user", tasks[i].text)
                /\ \A j \in TaskIds :
                    (/\ tasks[j].event.ts = "100" /\ tasks[i].event.ts = "101"
                     /\ Processed(j)
                     /\ tasks[j].at = 1 /\ tasks[j].reply_at = 2 /\ at = 3)
                        => w = << Message("user", <<Word("hi")>>),
                                  Message("assistant", <<Word("hello!")>>),
                                  Message("user", <<Word("ok thanks")>>) >>

(* Two handlers of one channel interleave on a history of more than five     *)
(* messages: the second was dispatched while the first was in agent.run, its *)
(* window has five messages and leaves out the oldest ones.                  *)
C18_Witness ==
    \E i, j \in TaskIds :
        /\ i < j
        /\ tasks[i].event.channel = tasks[j].event.channel
        /\ Processed(i) /\ Processed(j)
        /\ tasks[i].run = "ok"
        /\ tasks[j].at > WindowSize
        /\ tasks[j].at < tasks[i].reply_at
        /\ Len(tasks[j].messages) = WindowSize
        /\ tasks[j].messages[1] # conversations[tasks[j].event.channel][1]

-----------------------------------------------------------------------------
(* C19: append-only history: with every step, under every interleaving of    *)
(* handlers, each channel that has a history keeps it, and the history       *)
(* before the step is a prefix of the history after it: no entry is edited,  *)
(* moved or removed.                                                         *)
C19_AppendOnly ==
    [][\A c \in DOMAIN conversations :
        /\ c \in DOMAIN conversations'
        /\ Len(conversations'[c]) >= Len(conversations[c])
        /\ SubSeq(conversations'[c], 1, Len(conversations[c])) = conversations[c]
      ]_vars

(* A history of more than five messages that still holds, at its place, the  *)
(* user message of a turn whose agent.run failed while another handler of    *)
(* the channel, dispatched meanwhile, was answered.                          *)
C19_Witness ==
    \E i, j \in TaskIds :
        /\ i < j
        /\ tasks[i].event.channel = tasks[j].event.channel
        /\ tasks[i].run = "raised"
        /\ tasks[j].run = "ok"
        /\ LET h == conversations[tasks[i].event.channel]
           IN  /\ Len(h) > WindowSize
               /\ h[tasks[i].at] = Message("user", tasks[i].text)
               /\ h[tasks[j].reply_at].role = "assistant"

-----------------------------------------------------------------------------
(* C20: backend handles are single-use: over startup, dispatch and shutdown  *)
(* connect() is called on a backend at most once (and cleanup() at most      *)
(* once), a connected backend is one whose connect() was called, and once    *)
(* cleanup() has been called on a backend no step calls its connect() or     *)
(* brings it (back) to connected.                                            *)
C20_SingleUseHandles ==
    /\ [](\A s \in Servers :
            /\ servers[s].connects <= 1
            /\ servers[s].cleanups <= 1
            /\ servers[s].state = "connected" => servers[s].connects = 1)
    /\ [][\A s \in Servers :
            servers[s].cleanups > 0 =>
                /\ servers'[s].connects = servers[s].connects
                /\ servers[s].state # "connected" => servers'[s].state # "connected"
          ]_vars

(* main() has exited: the first backend was connected and then closed, the   *)
(* second was cleaned up without ever being connected (startup was           *)
(* interrupted), and neither was connected again.                            *)
C20_Witness ==
    /\ pc = "exited"
    /\ servers[1] = [state |-> "closed", connects |-> 1, cleanups |-> 1]
    /\ servers[2].connects = 0
    /\ servers[2].cleanups = 1

-----------------------------------------------------------------------------
(* Event j is the next event dispatched on the channel of event i. *)
NextEvent(i, j) ==
    /\ i < j
    /\ Processed(i) /\ Processed(j)
    /\ tasks[i].event.channel = tasks[j].event.channel
    /\ \A k \in TaskIds :
        (i < k /\ k < j) =>
            ~(Processed(k) /\ tasks[k].event.channel = tasks[i].event.channel)

(* C21: a failed turn is not rolled back: when agent.run failed for an event *)
(* the handler has added exactly one entry to the channel's history, the     *)
(* event's user message, which is still at its place, and that entry is one  *)
(* of the messages of the window of the next event dispatched on the channel. *)
C21_FailedTurnNotRolledBack ==
    \A i \in TaskIds :
        tasks[i].run = "raised" =>
            LET h == conversations[tasks[i].event.channel] IN
            /\ tasks[i].reply_at = 0
            /\ tasks[i].at \in 1..Len(h)
            /\ h[tasks[i].at] = Message("user", tasks[i].text)
            /\ \A j \in TaskIds :
                NextEvent(i, j) =>
                    LET w == tasks[j].messages
                        d == tasks[j].at - tasks[i].at
                    IN  /\ d >= 1 /\ d < Len(w)
                        /\ w[Len(w) - d] = Message("user", tasks[i].text)

-----------------------------------------------------------------------------
=============================================================================
